---- MODULE Spec2Model ----
(***************************************************************************)
(* Segmentation of a dependency tree into clauses and of a clause into     *)
(* Linear Dependency Segments, after src/segmenter.py.                     *)
(*                                                                         *)
(* A tree is a function from the token ids 1..n to records                 *)
(*   [tag  : the coarse part-of-speech tag (tree[i]["tag"]),               *)
(*    xpos : the fine-grained tag, a sequence of characters,               *)
(*    gov  : the governor id; 0 is the root, -1 an unattached token].      *)
(***************************************************************************)
EXTENDS Integers, Sequences, FiniteSets, TLC

\* Number of tokens of the trees that are classified and segmented.
MaxTok == 3

\* Number of tokens of the trees the batch driver reads, and number of trees
\* of one run of the driver.
DriverTok == 3
MaxTrees == 2

VARIABLES
    tree,       \* the tree the functions are applied to
    pc,         \* which function has been applied to it
    fin_verbs,  \* clause_segmentation's list of the clause anchors
    clauses,    \* what clause_segmentation returned
    clause,     \* the clause handed to the two segmentation strategies
    segments_1, \* what syntactically_linked_ngrams_1 returned
    segments_2, \* what syntactically_linked_ngrams_2 returned
    method,     \* which of the driver's two loops runs (strategy 1 or 2)
    results,    \* the driver's list of report rows
    t_id,       \* the driver's position in new_trees
    clause_c,   \* the driver's clause counter
    segment_c   \* the driver's segment counter

vars == <<tree, pc, fin_verbs, clauses, clause, segments_1, segments_2,
          method, results, t_id, clause_c, segment_c>>

(***************************************************************************)
(* The inputs.                                                             *)
(***************************************************************************)
Tags == {"AUX", "SCONJ", "VERB"}

\* Fine-grained tags: a present form (VB...), a participle (Vp...), a noun.
Xposes == {<<"V", "B", "-">>, <<"V", "p", "Q">>, <<"N", "N", "F">>}

Ids(n) == 1..n

\* i's governor chain reaches the root or an unattached end within n steps.
RECURSIVE Attached(_, _, _)
Attached(g, i, n) ==
    IF g[i] <= 0 THEN TRUE
    ELSE IF n = 0 THEN FALSE
    ELSE Attached(g, g[i], n - 1)

\* Governor references without a cycle, over lo..n (lo = 0: every token is
\* attached; lo = -1: tokens may be unattached).
Forests(n, lo) ==
    {g \in [Ids(n) -> lo..n] : \A i \in Ids(n) : Attached(g, i, n)}

MkTree(n, tg, xp, g) == [i \in Ids(n) |-> [tag |-> tg[i], xpos |-> xp[i], gov |-> g[i]]]

(***************************************************************************)
(* The tree accessor (conll3.Tree).                                        *)
(***************************************************************************)
TreeIds(t) == DOMAIN t

\* tree.idgovRel(i): the governor id of i (the relation label is not read).
idgovRel(t, i) == t[i].gov

\* tree[i]["kids"] after tree.addkids(): the tokens governed by i.
kids(t, i) == {k \in TreeIds(t) : t[k].gov = i}

\* The ids of the tree in sentence order (for i in tree).
IdSeq(t) == [k \in 1..Cardinality(TreeIds(t)) |-> k]

\* tree.get_kids(i): the children of i as a list, in sentence order.
get_kids(t, i) == SelectSeq(IdSeq(t), LAMBDA k : t[k].gov = i)

(***************************************************************************)
(* is_finite_verb, is_finite_verb_or_sconj                                 *)
(***************************************************************************)
\* xpos[:2]
Prefix2(x) == SubSeq(x, 1, IF Len(x) < 2 THEN Len(x) ELSE 2)

\* A variant without the rule for auxiliaries.
is_finite_verb_no_aux(t, i) ==
    IF Prefix2(t[i].xpos) \in {<<"V", "c">>, <<"V", "s">>, <<"V", "B">>, <<"V", "i">>}
    THEN TRUE
    ELSE IF Prefix2(t[i].xpos) = <<"V", "p">>
    THEN IF idgovRel(t, i) = 0 THEN TRUE
         ELSE t[idgovRel(t, i)].tag # "AUX"
    ELSE FALSE

is_finite_verb(t, i) ==
    IF Prefix2(t[i].xpos) \in {<<"V", "c">>, <<"V", "s">>, <<"V", "B">>, <<"V", "i">>}
    THEN TRUE
    ELSE IF Prefix2(t[i].xpos) = <<"V", "p">>
    THEN IF idgovRel(t, i) = 0 THEN TRUE
         ELSE t[idgovRel(t, i)].tag # "AUX"
    ELSE IF t[i].tag = "AUX"
    THEN \E k \in kids(t, i) : Prefix2(t[k].xpos) = <<"V", "p">>
    ELSE FALSE

\* A variant in which a finite verb never defers to its subordinator.
is_finite_verb_or_sconj_no_defer(t, i) ==
    IF t[i].tag = "SCONJ"
    THEN \E k \in kids(t, i) : is_finite_verb(t, k)
    ELSE is_finite_verb(t, i)

\* The function returns None, which is false in a condition, for a token
\* that is neither a SCONJ nor a finite verb.
is_finite_verb_or_sconj(t, i) ==
    IF t[i].tag = "SCONJ"
    THEN \E k \in kids(t, i) : is_finite_verb(t, k)
    ELSE IF is_finite_verb(t, i)
    THEN IF idgovRel(t, i) = 0 THEN TRUE
         ELSE t[idgovRel(t, i)].tag # "SCONJ"
    ELSE FALSE

(***************************************************************************)
(* get_descendants_until_Fin_Verb, clause_segmentation                     *)
(***************************************************************************)
\* A variant that keeps every token.
NotAnchors_keep_all(t, s) == s

NotAnchors(t, s) == SelectSeq(s, LAMBDA z : ~is_finite_verb_or_sconj(t, z))

RECURSIVE get_descendants_until_Fin_Verb(_, _)
RECURSIVE ExtendWithChildren(_, _, _, _)

\* The loop over the kept children, from the k-th on: each child's own
\* result, filtered again, is appended to descendants.
ExtendWithChildren(t, children, k, descendants) ==
    IF k > Len(children) THEN descendants
    ELSE ExtendWithChildren(t, children, k + 1,
            descendants \o NotAnchors(t, get_descendants_until_Fin_Verb(t, children[k])))

\* A variant that does not descend below the children.
get_descendants_until_Fin_Verb_shallow(t, i) == NotAnchors(t, get_kids(t, i))

get_descendants_until_Fin_Verb(t, i) ==
    LET children == NotAnchors(t, get_kids(t, i))
    IN ExtendWithChildren(t, children, 1, children)

\* A variant that leaves the list as it is.
sorted_not(s) == s

\* sorted(list): ascending, duplicates kept.
sorted(s) == SortSeq(s, LAMBDA a, b : a < b)

\* The ids of the tree for which the classifier holds, in sentence order.
FinVerbs(t) == SelectSeq(IdSeq(t), LAMBDA i : is_finite_verb_or_sconj(t, i))

ClauseOf(t, root) == sorted(get_descendants_until_Fin_Verb(t, root) \o <<root>>)

clause_segmentation(t) ==
    LET roots == FinVerbs(t)
    IN [k \in 1..Len(roots) |-> ClauseOf(t, roots[k])]

(***************************************************************************)
(* is_syntactic_bigram, is_complete, the two segmentation strategies       *)
(***************************************************************************)
\* A variant that looks at the governor of the first token only.
is_syntactic_bigram_one_way(t, id_1, id_2) == idgovRel(t, id_1) = id_2

is_syntactic_bigram(t, id_1, id_2) ==
    IF idgovRel(t, id_1) = id_2 THEN TRUE
    ELSE idgovRel(t, id_2) = id_1

is_complete(t) == \A i \in TreeIds(t) : idgovRel(t, i) # -1

\* segments[-1].append(x)
AppendToLast(segments, x) ==
    [segments EXCEPT ![Len(segments)] = Append(@, x)]

\* The loop of strategy 1 from position i of the clause on.
RECURSIVE Walk_1(_, _, _, _)
Walk_1(t, c, i, segments) ==
    IF i > Len(c) THEN segments
    ELSE IF is_syntactic_bigram(t, c[i], c[i - 1])
    THEN Walk_1(t, c, i + 1, AppendToLast(segments, c[i]))
    ELSE Walk_1(t, c, i + 1, Append(segments, <<c[i]>>))

\* A variant whose loop starts one position late.
syntactically_linked_ngrams_1_late(t, c) == Walk_1(t, c, 3, <<<<c[1]>>>>)

syntactically_linked_ngrams_1(t, c) == Walk_1(t, c, 2, <<<<c[1]>>>>)

\* A variant of the loop of strategy 2 that tests adjacency alone.
RECURSIVE Walk_2_adjacent(_, _, _, _)
Walk_2_adjacent(t, c, i, segments) ==
    IF i > Len(c) THEN segments
    ELSE IF c[i - 1] + 1 = c[i]
    THEN Walk_2_adjacent(t, c, i + 1, AppendToLast(segments, c[i]))
    ELSE Walk_2_adjacent(t, c, i + 1, Append(segments, <<c[i]>>))

\* The loop of strategy 2 from position i of the clause on.
RECURSIVE Walk_2(_, _, _, _)
Walk_2(t, c, i, segments) ==
    IF i > Len(c) THEN segments
    ELSE IF c[i - 1] + 1 = c[i] /\ is_syntactic_bigram(t, c[i], c[i - 1])
    THEN Walk_2(t, c, i + 1, AppendToLast(segments, c[i]))
    ELSE Walk_2(t, c, i + 1, Append(segments, <<c[i]>>))

\* A variant of strategy 2 that links on adjacency or a syntactic link.
RECURSIVE Walk_2_or(_, _, _, _)
Walk_2_or(t, c, i, segments) ==
    IF i > Len(c) THEN segments
    ELSE IF c[i - 1] + 1 = c[i] \/ is_syntactic_bigram(t, c[i], c[i - 1])
    THEN Walk_2_or(t, c, i + 1, AppendToLast(segments, c[i]))
    ELSE Walk_2_or(t, c, i + 1, Append(segments, <<c[i]>>))

syntactically_linked_ngrams_2_or(t, c) == Walk_2_or(t, c, 2, <<<<c[1]>>>>)

syntactically_linked_ngrams_2(t, c) == Walk_2(t, c, 2, <<<<c[1]>>>>)

(***************************************************************************)
(* clause_segmentation applied to a well-formed tree.                      *)
(***************************************************************************)
\* The governor references of the well-formed trees of MaxTok tokens.
WellFormedGovs == Forests(MaxTok, 0)

NoDriver == method = 0 /\ results = <<>> /\ t_id = 0 /\ clause_c = 0 /\ segment_c = 0

Init ==
    /\ \E tg \in [Ids(MaxTok) -> Tags], xp \in [Ids(MaxTok) -> Xposes],
          g \in WellFormedGovs : tree = MkTree(MaxTok, tg, xp, g)
    /\ pc = "tree"
    /\ fin_verbs = <<>> /\ clauses = <<>>
    /\ clause = <<>> /\ segments_1 = <<>> /\ segments_2 = <<>>
    /\ NoDriver

\* clause_segmentation(tree): the anchors are found, then a clause is built
\* from each.
ClauseSegmentation ==
    /\ pc = "tree"
    /\ fin_verbs' = FinVerbs(tree)
    /\ clauses' = clause_segmentation(tree)
    /\ pc' = "segmented"
    /\ UNCHANGED <<tree, clause, segments_1, segments_2,
                   method, results, t_id, clause_c, segment_c>>

Next == ClauseSegmentation

Spec == Init /\ [][Next]_vars

(***************************************************************************)
(* The two strategies applied to a clause of any tree.                     *)
(***************************************************************************)
\* The non-empty ascending id sequences over n tokens.
Clauses(n) ==
    {SelectSeq([k \in 1..n |-> k], LAMBDA k : k \in S) : S \in (SUBSET Ids(n)) \ {{}}}

\* Trees of n tokens with any governor references at all; the strategies
\* read nothing else of a tree.
GovTrees(n) ==
    {MkTree(n, [i \in Ids(n) |-> "VERB"], [i \in Ids(n) |-> <<"N", "N", "F">>], g) :
        g \in [Ids(n) -> (-1)..n]}

\* The trees of the example clause [3,4,6] of a sentence of six tokens:
\* 3 is linked to 4 and 4 to 6, in either direction.
ExampleTrees ==
    {MkTree(6, [i \in Ids(6) |-> "VERB"], [i \in Ids(6) |-> <<"N", "N", "F">>], g) :
        g \in {h \in [Ids(6) -> {0, 3, 4, 6}] :
                  /\ h[1] = 0 /\ h[2] = 0 /\ h[5] = 0
                  /\ (h[3] = 4 \/ h[4] = 3)
                  /\ (h[4] = 6 \/ h[6] = 4)}}

InitSeg ==
    /\ \/ tree \in GovTrees(MaxTok) /\ clause \in Clauses(MaxTok)
       \/ tree \in ExampleTrees /\ clause = <<3, 4, 6>>
    /\ pc = "clause"
    /\ fin_verbs = <<>> /\ clauses = <<>>
    /\ segments_1 = <<>> /\ segments_2 = <<>>
    /\ NoDriver

Segment_1 ==
    /\ pc = "clause"
    /\ segments_1 = <<>>
    /\ segments_1' = syntactically_linked_ngrams_1(tree, clause)
    /\ UNCHANGED <<tree, pc, fin_verbs, clauses, clause, segments_2,
                   method, results, t_id, clause_c, segment_c>>

Segment_2 ==
    /\ pc = "clause"
    /\ segments_2 = <<>>
    /\ segments_2' = syntactically_linked_ngrams_2(tree, clause)
    /\ UNCHANGED <<tree, pc, fin_verbs, clauses, clause, segments_1,
                   method, results, t_id, clause_c, segment_c>>

NextSeg == Segment_1 \/ Segment_2

SpecSeg == InitSeg /\ [][NextSeg]_vars

(***************************************************************************)
(* The batch driver: one loop per strategy over the trees of the corpus.   *)
(***************************************************************************)
\* tree[x]["t"], the surface form of a token: every token of the corpus
\* trees below is the same word.
Form(t, x) == "w"

\* " ".join([t[x]["t"] for x in ids]): the forms in the order of the ids.
Text(t, ids) == [k \in 1..Len(ids) |-> Form(t, ids[k])]

\* t.sentence(): the forms of all the tokens in sentence order.
sentence(t) == Text(t, IdSeq(t))

\* What one iteration of the loop reads of its tree t: whether it is
\* complete and, if it is, its sentence, its clauses and the segments of each
\* clause under the strategy of either loop.
TreeReading(t) ==
    IF ~is_complete(t) THEN [complete |-> FALSE]
    ELSE LET cls == clause_segmentation(t)
         IN [complete |-> TRUE,
             sentence |-> sentence(t),
             clauses |-> [k \in 1..Len(cls) |->
                 [text |-> Text(t, cls[k]),
                  segments |-> <<
                     [j \in 1..Len(syntactically_linked_ngrams_1(t, cls[k])) |->
                         Text(t, syntactically_linked_ngrams_1(t, cls[k])[j])],
                     [j \in 1..Len(syntactically_linked_ngrams_2(t, cls[k])) |->
                         Text(t, syntactically_linked_ngrams_2(t, cls[k])[j])] >>]]]

Row(type, sentence_id, clause_id, segment_id, text) ==
    [type |-> type, sentence_id |-> sentence_id, clause_id |-> clause_id,
     segment_id |-> segment_id, text |-> text]

\* for s in segments, from the k-th segment on; d holds results and the two
\* counters, segments the texts of the segments.
RECURSIVE SegmentLoop(_, _, _, _)
SegmentLoop(d, tid, segments, k) ==
    IF k > Len(segments) THEN d
    ELSE SegmentLoop(
            [d EXCEPT !.results = Append(@, Row("segment", tid, d.clause_c, d.segment_c,
                                                segments[k])),
                      !.segment_c = @ + 1],
            tid, segments, k + 1)

\* for c in clauses, from the k-th clause on, in the loop of method m.
RECURSIVE ClauseLoop(_, _, _, _, _)
ClauseLoop(d, m, tid, cls, k) ==
    IF k > Len(cls) THEN d
    ELSE LET withClause ==
                 [d EXCEPT !.results = Append(@, Row("clause", tid, d.clause_c, "None",
                                                     cls[k].text))]
             withSegments == SegmentLoop(withClause, tid, cls[k].segments[m], 1)
         IN ClauseLoop([withSegments EXCEPT !.clause_c = @ + 1], m, tid, cls, k + 1)

\* A variant of the loop body that starts the clause counter again at 0 for
\* each sentence.
LoopBody_per_sentence(d, m, tid, r) ==
    ClauseLoop([d EXCEPT !.results = Append(@, Row("sentence", tid, "None", "None",
                                                   r.sentence)),
                         !.clause_c = 0],
               m, tid, r.clauses, 1)

\* The body of the loop of method m for a complete tree read as r, the
\* tid-th tree of the corpus.
LoopBody(d, m, tid, r) ==
    ClauseLoop([d EXCEPT !.results = Append(@, Row("sentence", tid, "None", "None",
                                                   r.sentence))],
               m, tid, r.clauses, 1)

\* The tokens of the corpus trees: finite verbs, subordinators, nouns.
CorpusTokens ==
    {[tag |-> "VERB", xpos |-> <<"V", "B", "-">>],
     [tag |-> "SCONJ", xpos |-> <<"J", ",", "-">>],
     [tag |-> "NOUN", xpos |-> <<"N", "N", "F">>]}

\* The trees a corpus may hold: governor references without a cycle, tokens
\* possibly unattached.
CorpusTrees ==
    {[i \in Ids(DriverTok) |-> [tag |-> w[i].tag, xpos |-> w[i].xpos, gov |-> g[i]]] :
        w \in [Ids(DriverTok) -> CorpusTokens], g \in Forests(DriverTok, -1)}

CorpusReadings == {TreeReading(t) : t \in CorpusTrees}

InitDriver ==
    /\ method \in {1, 2}
    /\ results = <<>> /\ t_id = 0 /\ clause_c = 0 /\ segment_c = 0
    /\ pc = "driver"
    /\ tree = <<>> /\ fin_verbs = <<>> /\ clauses = <<>>
    /\ clause = <<>> /\ segments_1 = <<>> /\ segments_2 = <<>>

\* An iteration on a tree that is not complete: continue.
SkipIncomplete ==
    /\ pc = "driver"
    /\ t_id < MaxTrees
    /\ \E r \in CorpusReadings : ~r.complete
    /\ t_id' = t_id + 1
    /\ UNCHANGED <<tree, pc, fin_verbs, clauses, clause, segments_1, segments_2,
                   method, results, clause_c, segment_c>>

\* An iteration on a complete tree.
ProcessTree ==
    /\ pc = "driver"
    /\ t_id < MaxTrees
    /\ \E r \in CorpusReadings :
        /\ r.complete
        /\ LET d == LoopBody([results |-> results, clause_c |-> clause_c,
                              segment_c |-> segment_c], method, t_id, r)
           IN /\ results' = d.results
              /\ clause_c' = d.clause_c
              /\ segment_c' = d.segment_c
    /\ t_id' = t_id + 1
    /\ UNCHANGED <<tree, pc, fin_verbs, clauses, clause, segments_1, segments_2, method>>

NextDriver == SkipIncomplete \/ ProcessTree

SpecDriver == InitDriver /\ [][NextDriver]_vars

(***************************************************************************)
(* Properties of the two strategies (SpecSeg).                             *)
(***************************************************************************)
RECURSIVE Flatten(_)
Flatten(segs) == IF segs = <<>> THEN <<>> ELSE Head(segs) \o Flatten(Tail(segs))

\* Position in the clause of the last id of the k-th segment.
RECURSIVE EndPos(_, _)
EndPos(segs, k) == IF k = 0 THEN 0 ELSE EndPos(segs, k - 1) + Len(segs[k])

StartPos(segs, k) == EndPos(segs, k - 1) + 1

\* One token is the governor of the other.
Linked(t, a, b) == t[a].gov = b \/ t[b].gov = a

PartitionOf(segs, c) ==
    /\ \A k \in 1..Len(segs) : segs[k] # <<>>
    /\ Flatten(segs) = c

\* C1: both strategies return an ordered list of non-empty segments whose
\* concatenation, in order, is the input clause exactly.
C1_PartitionLaw ==
    /\ segments_1 # <<>> => PartitionOf(segments_1, clause)
    /\ segments_2 # <<>> => PartitionOf(segments_2, clause)

C1_Witness ==
    /\ clause = <<1, 2, 3>>
    /\ segments_1 = <<<<1, 2>>, <<3>>>>
    /\ segments_2 = <<<<1, 2>>, <<3>>>>

\* C2: strategy 2 returns at least as many segments as strategy 1 on the
\* same clause of the same tree.
C2_CountOrder ==
    (segments_1 # <<>> /\ segments_2 # <<>>) => Len(segments_2) >= Len(segments_1)

C2_Witness ==
    /\ segments_1 # <<>> /\ segments_2 # <<>>
    /\ Len(segments_2) > Len(segments_1)

\* C9: in the output of strategy 1 consecutive ids of one segment are linked
\* (one governs the other, at any distance), and the last id of a segment is
\* not linked to the first id of the next one; the clause [3,4,6] with the
\* links 3-4 and 4-6 gives the single segment [3,4,6].
C9_MaximalRuns ==
    segments_1 # <<>> =>
        /\ \A k \in 1..Len(segments_1) : \A j \in 1..(Len(segments_1[k]) - 1) :
              Linked(tree, segments_1[k][j], segments_1[k][j + 1])
        /\ \A k \in 1..(Len(segments_1) - 1) :
              ~Linked(tree, segments_1[k][Len(segments_1[k])], segments_1[k + 1][1])
        /\ (clause = <<3, 4, 6>> /\ Linked(tree, 3, 4) /\ Linked(tree, 4, 6))
              => segments_1 = <<<<3, 4, 6>>>>

C9_Witness ==
    /\ clause = <<3, 4, 6>>
    /\ tree[4].gov = 3 /\ tree[6].gov = 4
    /\ segments_1 = <<<<3, 4, 6>>>>

\* C10: every segment of strategy 2 is a contiguous run inside exactly one
\* segment of strategy 1, and every position where a segment of strategy 1
\* ends is a position where a segment of strategy 2 ends.
C10_Refinement ==
    (segments_1 # <<>> /\ segments_2 # <<>>) =>
        /\ \A k \in 1..Len(segments_2) :
              Cardinality({j \in 1..Len(segments_1) :
                  /\ StartPos(segments_1, j) <= StartPos(segments_2, k)
                  /\ EndPos(segments_2, k) <= EndPos(segments_1, j)
                  /\ segments_2[k] = SubSeq(segments_1[j],
                        StartPos(segments_2, k) - StartPos(segments_1, j) + 1,
                        EndPos(segments_2, k) - StartPos(segments_1, j) + 1)}) = 1
        /\ \A j \in 1..Len(segments_1) :
              \E k \in 1..Len(segments_2) : EndPos(segments_2, k) = EndPos(segments_1, j)

C10_Witness ==
    /\ segments_1 = <<<<3, 4, 6>>>>
    /\ segments_2 = <<<<3, 4>>, <<6>>>>

(***************************************************************************)
(* Properties of the classifier and of clause_segmentation (Spec).         *)
(***************************************************************************)
Range(s) == {s[k] : k \in 1..Len(s)}

\* The ids of a set in ascending order.
AscSeq(t, S) == SelectSeq(IdSeq(t), LAMBDA k : k \in S)

\* clause_segmentation found i to be a clause anchor.
IsAnchor(i) == i \in Range(fin_verbs)

\* d is below r: the governor chain of d reaches r.
RECURSIVE Descendant(_, _, _, _)
Descendant(t, d, r, n) ==
    IF t[d].gov = r THEN TRUE
    ELSE IF t[d].gov <= 0 \/ n = 0 THEN FALSE
    ELSE Descendant(t, t[d].gov, r, n - 1)

\* d is below r and no token from d up to r, r excluded, is an anchor.
RECURSIVE ClearPath(_, _, _, _)
ClearPath(t, d, r, n) ==
    IF IsAnchor(d) THEN FALSE
    ELSE IF t[d].gov = r THEN TRUE
    ELSE IF t[d].gov <= 0 \/ n = 0 THEN FALSE
    ELSE ClearPath(t, t[d].gov, r, n - 1)

HasVpChild(t, i) == \E k \in TreeIds(t) : t[k].gov = i /\ Prefix2(t[k].xpos) = <<"V", "p">>

GovIsSconj(t, i) == t[i].gov # 0 /\ t[t[i].gov].tag = "SCONJ"

\* The clause clause_segmentation built from anchor r.
ClauseOfAnchor(r) == clauses[CHOOSE k \in 1..Len(fin_verbs) : fin_verbs[k] = r]

\* C3: every clause is strictly ascending, holds the anchor it was built
\* from, and every other id of it is a descendant of that anchor.
C3_ClauseShape ==
    pc = "segmented" =>
        /\ Len(clauses) = Len(fin_verbs)
        /\ \A k \in 1..Len(clauses) :
              /\ \A j \in 1..(Len(clauses[k]) - 1) : clauses[k][j] < clauses[k][j + 1]
              /\ fin_verbs[k] \in Range(clauses[k])
              /\ \A d \in Range(clauses[k]) \ {fin_verbs[k]} :
                    Descendant(tree, d, fin_verbs[k], Len(tree))

C3_Witness ==
    /\ pc = "segmented"
    /\ \E k \in 1..Len(clauses) :
          /\ Len(clauses[k]) = 3
          /\ fin_verbs[k] = 2
          /\ tree[3].gov = 2 /\ tree[1].gov = 3

\* C4 as stated: an AUX token is a clause anchor if and only if one of its
\* children has a fine-grained tag starting with Vp, whatever its own
\* fine-grained tag and its governor.
C4_AuxAnchorIffVpChild ==
    pc = "segmented" =>
        \A i \in TreeIds(tree) :
            tree[i].tag = "AUX" => (IsAnchor(i) <=> HasVpChild(tree, i))

\* C4 as amended: an AUX token whose own fine-grained tag starts with none of
\* Vc, Vs, VB, Vi, Vp is a clause anchor if and only if one of its children
\* has a fine-grained tag starting with Vp and its governor is the root or a
\* token that is not a SCONJ.
C4_AuxAnchorAmended ==
    pc = "segmented" =>
        \A i \in TreeIds(tree) :
            (/\ tree[i].tag = "AUX"
             /\ Prefix2(tree[i].xpos) \notin
                  {<<"V", "c">>, <<"V", "s">>, <<"V", "B">>, <<"V", "i">>, <<"V", "p">>})
            => (IsAnchor(i) <=> (HasVpChild(tree, i) /\ ~GovIsSconj(tree, i)))

C4_Witness ==
    /\ pc = "segmented"
    /\ tree[1].tag = "AUX" /\ Prefix2(tree[1].xpos) = <<"N", "N">>
    /\ tree[1].gov = 0
    /\ tree[2].gov = 1 /\ Prefix2(tree[2].xpos) = <<"V", "p">>
    /\ IsAnchor(1)
    /\ tree[3].tag = "AUX" /\ Prefix2(tree[3].xpos) = <<"N", "N">>
    /\ ~IsAnchor(3)

\* C5: the clauses built from distinct anchors of one tree share no token.
C5_ClausesDisjoint ==
    pc = "segmented" =>
        \A j, k \in 1..Len(clauses) :
            j # k => Range(clauses[j]) \cap Range(clauses[k]) = {}

C5_Witness ==
    /\ pc = "segmented"
    /\ Len(clauses) = 2
    /\ fin_verbs = <<1, 3>>
    /\ tree[2].gov = 1 /\ tree[3].gov = 2
    /\ clauses = <<<<1, 2>>, <<3>>>>

\* C7: for every anchor r, the ids get_descendants_until_Fin_Verb returns
\* are exactly the descendants of r with no anchor on the governor path from
\* them up to r (r excluded, the descendant included); the clause is the
\* ascending sort of these and r, each id once.
C7_ClauseContent ==
    pc = "segmented" =>
        \A k \in 1..Len(fin_verbs) :
            LET r == fin_verbs[k]
                own == {d \in TreeIds(tree) \ {r} : ClearPath(tree, d, r, Len(tree))}
            IN clauses[k] = AscSeq(tree, own \cup {r})

C7_Witness ==
    /\ pc = "segmented"
    /\ tree[2].gov = 3 /\ tree[1].gov = 2
    /\ IsAnchor(3) /\ ~IsAnchor(2) /\ ~IsAnchor(1)
    /\ ClauseOfAnchor(3) = <<1, 2, 3>>

\* What C8 says of the token V: if it is a finite verb governed by a SCONJ
\* token S then S is an anchor, V is not, and V is in the clause of S; if it
\* is a finite verb governed by the root or by a token that is not a SCONJ
\* then it is an anchor.
SconjTakesOver(V) ==
    is_finite_verb(tree, V) =>
        IF GovIsSconj(tree, V)
        THEN /\ IsAnchor(tree[V].gov) /\ ~IsAnchor(V)
             /\ \E k \in 1..Len(fin_verbs) :
                   fin_verbs[k] = tree[V].gov /\ V \in Range(clauses[k])
        ELSE IsAnchor(V)

\* C8 as stated: every finite verb V governed by a SCONJ token S hands the
\* anchor to S and is in the clause of S; every finite verb governed by the
\* root or by a token that is not a SCONJ is an anchor.
C8_SconjTakesOver ==
    pc = "segmented" => \A V \in TreeIds(tree) : SconjTakesOver(V)

\* C8 as amended: the same for every finite verb V whose own coarse tag is
\* not SCONJ.
C8_SconjTakesOverAmended ==
    pc = "segmented" =>
        \A V \in TreeIds(tree) : tree[V].tag # "SCONJ" => SconjTakesOver(V)

C8_Witness ==
    /\ pc = "segmented"
    /\ tree[1].tag = "SCONJ" /\ tree[2].tag = "VERB" /\ tree[3].tag = "VERB"
    /\ tree[2].gov = 1 /\ tree[1].gov = 3 /\ tree[3].gov = 0
    /\ is_finite_verb(tree, 2) /\ is_finite_verb(tree, 3)
    /\ fin_verbs = <<1, 3>>
    /\ clauses = <<<<1, 2>>, <<3>>>>

(***************************************************************************)
(* Properties of the report (SpecDriver).                                  *)
(***************************************************************************)
\* The rows of a type among the first n rows of the report.
RowsBefore(n, type) == {q \in 1..n : results[q].type = type}

\* The segment_id of every segment row is the number of segment rows before
\* it in the whole report.
SegmentIdsRunWide ==
    \A p \in 1..Len(results) :
        results[p].type = "segment" =>
            results[p].segment_id = Cardinality(RowsBefore(p - 1, "segment"))

\* C6 as stated: the clause_id of every clause row is the number of clause
\* rows of the same sentence before it (the first clause of each sentence has
\* clause_id 0), and segment_id counts the segment rows of the whole run.
C6_ClauseIdPerSentence ==
    /\ \A p \in 1..Len(results) :
          results[p].type = "clause" =>
              results[p].clause_id =
                  Cardinality({q \in RowsBefore(p - 1, "clause") :
                                  results[q].sentence_id = results[p].sentence_id})
    /\ SegmentIdsRunWide

\* C6 as amended: the clause_id of every clause row is the number of clause
\* rows before it in the whole run (only the first clause of the run has
\* clause_id 0; the counter is never reset), and segment_id counts the
\* segment rows of the whole run.
C6_ClauseIdRunWide ==
    /\ \A p \in 1..Len(results) :
          results[p].type = "clause" =>
              results[p].clause_id = Cardinality(RowsBefore(p - 1, "clause"))
    /\ SegmentIdsRunWide

C6_Witness ==
    /\ t_id = 2
    /\ \E p, q \in 1..Len(results) :
          /\ p < q
          /\ results[p].type = "sentence" /\ results[p].sentence_id = 1
          /\ results[p + 1].type = "clause" /\ results[p + 1].clause_id = 1
          /\ results[q].type = "segment" /\ results[q].sentence_id = 1
          /\ results[q].clause_id = 1 /\ results[q].segment_id = 2

====
